---------------------------- MODULE Spec2Model ----------------------------
(***************************************************************************)
(* Model of crates/nil/src/convert.rs: the translation layer between the   *)
(* analysis engine (byte offsets) and the editor protocol (line, UTF-16    *)
(* column).  The document store (Vfs) and its per-file LineMap live in    *)
(* another file of the crate; they are modelled from the specification     *)
(* (sections 4.1 and 6).                                                   *)
(***************************************************************************)
EXTENDS Integers, Sequences, FiniteSets, TLC

VARIABLES
    vfs,        \* the document store: FileId -> [uri, text]
    op,         \* which entry point the current behaviour exercises
    args,       \* the arguments of the call
    ret,        \* the value returned, or Pending
    lock,       \* the RwLock around the store: [readers, writer]
    pc,         \* position of the request thread inside from_file_pos
    file,       \* from_file_pos's local `file` (result of from_file)
    seen,       \* the store states the request read: [resolve, lookup]
    wpc,        \* position of the writer thread
    writes      \* number of writes the store has applied

vars == <<vfs, op, args, ret, lock, pc, file, seen, wpc, writes>>

(***************************************************************************)
(* Bounds of the model.                                                    *)
(***************************************************************************)
MaxDiags == 2       \* diagnostics in one to_diagnostics call
MaxNotes == 2       \* notes, summed over the diagnostics of one call
MaxEdits == 3       \* edits, summed over the files of one workspace edit
MaxLine == 2        \* largest client-supplied line
MaxChar == 3        \* largest client-supplied character
MaxWrites == 2      \* writes to the store during one from_file_pos call

Pending == "pending"
None == "none"

(***************************************************************************)
(* Texts.  A text is a sequence of characters; "W" stands for a character  *)
(* outside the Basic Multilingual Plane (4 bytes of UTF-8, 2 UTF-16        *)
(* units), every other character is ASCII.                                 *)
(***************************************************************************)
TextA == <<"a", "\n", "b">>
TextB == <<"W", "x">>
TextC == <<"x", "y", "\n", "W", "\n">>
Texts == {TextA, TextB, TextC}

ByteLen(c) == IF c = "W" THEN 4 ELSE 1
Utf16Len(c) == IF c = "W" THEN 2 ELSE 1

RECURSIVE ByteOffset(_, _)
\* byte offset of the boundary after the first n characters of text
ByteOffset(text, n) ==
    IF n = 0 THEN 0 ELSE ByteOffset(text, n - 1) + ByteLen(text[n])

RECURSIVE Utf16Units(_, _, _)
\* UTF-16 units of the characters text[from + 1 .. to]
Utf16Units(text, from, to) ==
    IF to <= from THEN 0
    ELSE Utf16Units(text, from, to - 1) + Utf16Len(text[to])

\* number of characters before byte offset `offset`; callers pass character
\* boundaries of the text, any other offset counts the characters that end
\* at or before it
CharIndex(text, offset) ==
    CHOOSE n \in 0..Len(text) :
        /\ ByteOffset(text, n) <= offset
        /\ \A m \in 0..Len(text) : ByteOffset(text, m) <= offset => m <= n

\* the character index at which line `line` (0-based) starts
LineStart(text, line) ==
    IF line = 0 THEN 0
    ELSE CHOOSE n \in 1..Len(text) :
            /\ text[n] = "\n"
            /\ Cardinality({i \in 1..n : text[i] = "\n"}) = line

LastLine(text) == Cardinality({i \in 1..Len(text) : text[i] = "\n"})

\* the character index at which line `line` ends (before its line break)
LineEnd(text, line) ==
    IF line = LastLine(text) THEN Len(text)
    ELSE LineStart(text, line + 1) - 1

\* LineMap::line_col: byte offset -> (line, UTF-16 column)
line_col(line_map, offset) ==
    LET n == CharIndex(line_map, offset)
        line == Cardinality({i \in 1..n : line_map[i] = "\n"})
    IN  <<line, Utf16Units(line_map, LineStart(line_map, line), n)>>

\* LineMap::pos: (line, UTF-16 column) -> byte offset, clamping the line to
\* the last line and the column to the end of the line
pos_of(line_map, line, character) ==
    LET l == IF line > LastLine(line_map) THEN LastLine(line_map) ELSE line
        s == LineStart(line_map, l)
        e == LineEnd(line_map, l)
        n == CHOOSE k \in s..e :
                /\ Utf16Units(line_map, s, k) <= character
                /\ \A j \in s..e :
                      Utf16Units(line_map, s, j) <= character => j <= k
    IN  ByteOffset(line_map, n)

\* the byte range of the p-th character of a text that is no line break
RangeAt(text, p) ==
    LET j == CHOOSE k \in 1..Len(text) :
                /\ text[k] # "\n"
                /\ Cardinality({i \in 1..k : text[i] # "\n"}) = p
    IN  <<ByteOffset(text, j - 1), ByteOffset(text, j)>>

\* the places of a file the analysis engine reports at
Places == {1, 2}

(***************************************************************************)
(* The document store.                                                     *)
(***************************************************************************)
Uris == {"file:///a.nix", "file:///b.nix", "file:///c.nix"}

InitVfs ==
    (1 :> [uri |-> "file:///a.nix", text |-> TextA]) @@
    (2 :> [uri |-> "file:///b.nix", text |-> TextB])

UnknownDocument == [ok |-> FALSE, err |-> "unknown document"]
Ok(v) == [ok |-> TRUE, val |-> v]

\* Vfs::get_file_for_uri
get_file_for_uri(v, uri) ==
    IF \E f \in DOMAIN v : v[f].uri = uri
    THEN Ok(CHOOSE f \in DOMAIN v : v[f].uri = uri)
    ELSE UnknownDocument

\* Vfs::uri_for_file
uri_for_file(v, f) == v[f].uri

\* Vfs::file_line_map
file_line_map(v, f) == v[f].text

(***************************************************************************)
(* Position/Location projector.                                            *)
(***************************************************************************)
Position(line, character) == [line |-> line, character |-> character]
Range(start, end) == [start |-> start, end |-> end]
Location(uri, range) == [uri |-> uri, range |-> range]
FileRange(file_id, range) == [file_id |-> file_id, range |-> range]

to_range(line_map, range) ==
    LET lc1 == line_col(line_map, range[1])
        lc2 == line_col(line_map, range[2])
    IN  Range(Position(lc1[1], lc1[2]), Position(lc2[1], lc2[2]))

to_location(v, frange) ==
    LET uri == uri_for_file(v, frange.file_id)
        line_map == file_line_map(v, frange.file_id)
    IN  Location(uri, to_range(line_map, frange.range))


(***************************************************************************)
(* Diagnostic translator.                                                  *)
(***************************************************************************)
\* the analysis diagnostics: severity(), message(), is_deprecated() and
\* is_unnecessary() are all derived from the diagnostic's kind; each kind is
\* reported at one place of the file
DiagnosticKinds ==
    { [severity |-> "Error", message |-> "syntax error",
       deprecated |-> FALSE, unnecessary |-> FALSE, place |-> 1],
      [severity |-> "Warning", message |-> "unused binding",
       deprecated |-> TRUE, unnecessary |-> TRUE, place |-> 2],
      [severity |-> "IncompleteSyntax", message |-> "incomplete",
       deprecated |-> FALSE, unnecessary |-> FALSE, place |-> 2] }

\* the message of a note at a place
NoteMessage(p) == IF p = 1 THEN "defined here" ELSE "used here"

\* a diagnostic of file f without notes
Diagnostics(v, f) ==
    { [kind |-> k, range |-> RangeAt(file_line_map(v, f), k.place),
       notes |-> <<>>] : k \in DiagnosticKinds }

\* a note: a range in any file of the store, and a message
Notes(v) ==
    { [frange |-> FileRange(f, RangeAt(file_line_map(v, f), p)),
       msg |-> NoteMessage(p)] : f \in DOMAIN v, p \in Places }

\* related_information of the primary diagnostic: one entry per note
related_information(v, diag) ==
    [i \in 1..Len(diag.notes) |->
        [location |-> to_location(v, diag.notes[i].frange),
         message |-> diag.notes[i].msg]]

\* tags of the primary diagnostic
tags(diag) ==
    (IF diag.kind.deprecated THEN <<"DEPRECATED">> ELSE <<>>) \o
    (IF diag.kind.unnecessary THEN <<"UNNECESSARY">> ELSE <<>>)

\* the severity match: the protocol severity, or "continue"
severity(diag) ==
    CASE diag.kind.severity = "Error" -> "ERROR"
      [] diag.kind.severity = "Warning" -> "WARNING"
      [] diag.kind.severity = "IncompleteSyntax" -> "continue"

\* mutant: a hoisted note is taken out of the primary's related information
primary_diag_without_hoisted(v, f, diag) ==
    LET rest == [diag EXCEPT !.notes =
                    SelectSeq(@, LAMBDA n : n.frange.file_id # f)]
    IN  [severity |-> severity(diag),
         range |-> to_range(file_line_map(v, f), diag.range),
         code |-> None,
         code_description |-> None,
         source |-> None,
         message |-> diag.kind.message,
         related_information |-> related_information(v, rest),
         tags |-> tags(diag),
         data |-> None]

primary_diag(v, f, diag) ==
    [severity |-> severity(diag),
     range |-> to_range(file_line_map(v, f), diag.range),
     code |-> None,
     code_description |-> None,
     source |-> None,
     message |-> diag.kind.message,
     related_information |-> related_information(v, diag),
     tags |-> tags(diag),
     data |-> None]

\* mutant: the Hint is placed at the primary's range
hint_diag_at_primary(v, f, diag, note) ==
    [severity |-> "HINT",
     range |-> to_range(file_line_map(v, f), diag.range),
     code |-> None,
     code_description |-> None,
     source |-> None,
     message |-> note.msg,
     related_information |->
        << [location |-> to_location(v, FileRange(f, diag.range)),
            message |-> "original diagnostic"] >>,
     tags |-> None,
     data |-> None]

\* the Hint pushed for one note of diag that lies in file f
hint_diag(v, f, diag, note) ==
    [severity |-> "HINT",
     range |-> to_range(file_line_map(v, f), note.frange.range),
     code |-> primary_diag(v, f, diag).code,
     code_description |-> primary_diag(v, f, diag).code_description,
     source |-> primary_diag(v, f, diag).source,
     message |-> note.msg,
     related_information |->
        << [location |-> to_location(v, FileRange(f, diag.range)),
            message |-> "original diagnostic"] >>,
     tags |-> None,
     data |-> None]

\* mutant: the cross-file check is missing
hoists_any_file(f, note) == TRUE

\* whether the hoisting loop pushes a Hint for the note
hoists(f, note) == note.frange.file_id = f

\* the hoisting loop: the Hints pushed for diag, in note order
hoisted_hints(v, f, diag) ==
    LET same == SelectSeq(diag.notes, LAMBDA n : hoists(f, n))
    IN  [i \in 1..Len(same) |-> hint_diag(v, f, diag, same[i])]

\* mutant: the hoisting loop runs before the severity match
loop_body_hoist_first(v, f, diag) ==
    hoisted_hints(v, f, diag) \o
    (IF severity(diag) = "continue" THEN <<>> ELSE <<primary_diag(v, f, diag)>>)

\* mutant: the primary is pushed before its Hints
loop_body_primary_first(v, f, diag) ==
    IF severity(diag) = "continue" THEN <<>>
    ELSE <<primary_diag(v, f, diag)>> \o hoisted_hints(v, f, diag)

\* one iteration of the loop over diags: what it pushes to ret
loop_body(v, f, diag) ==
    IF severity(diag) = "continue" THEN <<>>
    ELSE hoisted_hints(v, f, diag) \o <<primary_diag(v, f, diag)>>

RECURSIVE to_diagnostics(_, _, _)
to_diagnostics(v, f, diags) ==
    IF diags = <<>> THEN <<>>
    ELSE loop_body(v, f, Head(diags)) \o to_diagnostics(v, f, Tail(diags))

(***************************************************************************)
(* Completion translator.                                                  *)
(***************************************************************************)
CompletionItemKinds ==
    {"Keyword", "Param", "LetBinding", "Field",
     "BuiltinConst", "BuiltinFunction", "BuiltinAttrset"}

\* mutant: a let binding is reported as a constant value
completion_kind_let_as_value(kind) ==
    CASE kind = "Keyword" -> "KEYWORD"
      [] kind = "Param" -> "VARIABLE"
      [] kind = "LetBinding" -> "VALUE"
      [] kind = "Field" -> "FIELD"
      [] kind = "BuiltinConst" -> "CONSTANT"
      [] kind = "BuiltinFunction" -> "FUNCTION"
      [] kind = "BuiltinAttrset" -> "CLASS"

\* the match on item.kind
completion_kind(kind) ==
    CASE kind = "Keyword" -> "KEYWORD"
      [] kind = "Param" -> "VARIABLE"
      [] kind = "LetBinding" -> "VARIABLE"
      [] kind = "Field" -> "FIELD"
      [] kind = "BuiltinConst" -> "CONSTANT"
      [] kind = "BuiltinFunction" -> "FUNCTION"
      [] kind = "BuiltinAttrset" -> "CLASS"

to_completion_item(line_map, item) ==
    [label |-> item.label,
     kind |-> completion_kind(item.kind),
     insert_text |-> None,
     insert_text_format |-> "PLAIN_TEXT",
     insert_text_mode |-> "ADJUST_INDENTATION",
     text_edit |-> [range |-> to_range(line_map, item.source_range),
                    new_text |-> item.replace]]

(***************************************************************************)
(* Workspace edit translator.  content_edits is a map from file to edit    *)
(* list; the output map is keyed by the files' URIs, which the store keeps *)
(* distinct.                                                               *)
(***************************************************************************)
to_text_edit(line_map, edit) ==
    [range |-> to_range(line_map, edit.delete),
     new_text |-> edit.insert]

\* mutant: a file without edits gets no entry
to_workspace_edit_omit_empty(v, ws_edit) ==
    LET ce == ws_edit.content_edits
        some == {f \in DOMAIN ce : ce[f] # <<>>}
    IN  [changes |->
            [u \in {uri_for_file(v, f) : f \in some} |->
                LET f == CHOOSE g \in some : uri_for_file(v, g) = u
                IN  [i \in 1..Len(ce[f]) |->
                        to_text_edit(file_line_map(v, f), ce[f][i])]],
         document_changes |-> None,
         change_annotations |-> None]

\* mutant: one line map, that of the first file, is used for every file
to_workspace_edit_one_line_map(v, ws_edit) ==
    LET ce == ws_edit.content_edits
        first == CHOOSE g \in DOMAIN ce : \A h \in DOMAIN ce : g <= h
    IN  [changes |->
            [u \in {uri_for_file(v, f) : f \in DOMAIN ce} |->
                LET f == CHOOSE g \in DOMAIN ce : uri_for_file(v, g) = u
                IN  [i \in 1..Len(ce[f]) |->
                        to_text_edit(file_line_map(v, first), ce[f][i])]],
         document_changes |-> None,
         change_annotations |-> None]

to_workspace_edit(v, ws_edit) ==
    LET ce == ws_edit.content_edits
    IN  [changes |->
            [u \in {uri_for_file(v, f) : f \in DOMAIN ce} |->
                LET f == CHOOSE g \in DOMAIN ce : uri_for_file(v, g) = u
                IN  [i \in 1..Len(ce[f]) |->
                        to_text_edit(file_line_map(v, f), ce[f][i])]],
         document_changes |-> None,
         change_annotations |-> None]

(***************************************************************************)
(* Request positions.  from_file and from_pos each take the store's read   *)
(* lock for the length of their body.                                      *)
(***************************************************************************)
FilePos(file_id, pos) == [file_id |-> file_id, pos |-> pos]

\* body of from_file, under the read lock
from_file(v, doc) == get_file_for_uri(v, doc.uri)

\* mutant: a position outside the text is refused
from_pos_checked(v, f, pos) ==
    LET line_map == file_line_map(v, f)
    IN  IF \/ pos.line > LastLine(line_map)
           \/ pos.character >
                 Utf16Units(line_map, LineStart(line_map, pos.line),
                            LineEnd(line_map, pos.line))
        THEN [ok |-> FALSE, err |-> "position out of range"]
        ELSE Ok(pos_of(line_map, pos.line, pos.character))

\* body of from_pos, under the read lock
from_pos(v, f, pos) ==
    LET line_map == file_line_map(v, f)
    IN  Ok(pos_of(line_map, pos.line, pos.character))

(***************************************************************************)
(* The state no call of a behaviour touches.                               *)
(***************************************************************************)
Unlocked == [readers |-> 0, writer |-> FALSE]
NoReads == [resolve |-> None, lookup |-> None]

Idle ==
    /\ lock = Unlocked
    /\ pc = "call"
    /\ file = None
    /\ seen = NoReads
    /\ wpc = "idle"
    /\ writes = 0

(***************************************************************************)
(* to_diagnostics: the caller hands over a file of the store and a list of *)
(* diagnostics for it; the list is grown one diagnostic or note at a time. *)
(***************************************************************************)
RECURSIVE TotalNotes(_)
TotalNotes(diags) ==
    IF diags = <<>> THEN 0
    ELSE Len(Head(diags).notes) + TotalNotes(Tail(diags))

InitDiag ==
    /\ vfs = InitVfs
    /\ op = "to_diagnostics"
    /\ args \in {[file |-> f, diags |-> <<>>] : f \in DOMAIN InitVfs}
    /\ ret = Pending
    /\ Idle

PushDiag ==
    /\ op = "to_diagnostics"
    /\ pc = "call"
    /\ Len(args.diags) < MaxDiags
    /\ \E d \in Diagnostics(vfs, args.file) :
          args' = [args EXCEPT !.diags = Append(@, d)]
    /\ UNCHANGED <<vfs, op, ret, lock, pc, file, seen, wpc, writes>>

PushNote ==
    /\ op = "to_diagnostics"
    /\ pc = "call"
    /\ args.diags # <<>>
    /\ TotalNotes(args.diags) < MaxNotes
    /\ \E n \in Notes(vfs) :
          args' = [args EXCEPT !.diags[Len(args.diags)].notes = Append(@, n)]
    /\ UNCHANGED <<vfs, op, ret, lock, pc, file, seen, wpc, writes>>

ToDiagnostics ==
    /\ op = "to_diagnostics"
    /\ pc = "call"
    /\ ret' = to_diagnostics(vfs, args.file, args.diags)
    /\ pc' = "done"
    /\ UNCHANGED <<vfs, op, args, lock, file, seen, wpc, writes>>

NextDiag == PushDiag \/ PushNote \/ ToDiagnostics

SpecDiag == InitDiag /\ [][NextDiag]_vars

(***************************************************************************)
(* Reading the output of to_diagnostics: the primaries are the entries     *)
(* that are no Hints; block k is the run of Hints before the k-th primary. *)
(***************************************************************************)
DiagDone == op = "to_diagnostics" /\ pc = "done"

IsHint(d) == d.severity = "HINT"
Survives(d) == d.kind.severity \in {"Error", "Warning"}
Surviving(diags) == SelectSeq(diags, Survives)
Primaries(out) == SelectSeq(out, LAMBDA d : ~IsHint(d))
SameFileNotes(f, d) == SelectSeq(d.notes, LAMBDA n : n.frange.file_id = f)

PrimaryIndex(out, k) ==
    IF k = 0 THEN 0
    ELSE CHOOSE i \in 1..Len(out) :
            /\ ~IsHint(out[i])
            /\ Cardinality({j \in 1..i : ~IsHint(out[j])}) = k

HintBlock(out, k) ==
    SubSeq(out, PrimaryIndex(out, k - 1) + 1, PrimaryIndex(out, k) - 1)

RECURSIVE ExpectedLen(_, _)
ExpectedLen(f, diags) ==
    IF diags = <<>> THEN 0
    ELSE (IF Survives(Head(diags))
          THEN 1 + Len(SameFileNotes(f, Head(diags))) ELSE 0)
         + ExpectedLen(f, Tail(diags))

\* C1: a diagnostic of severity IncompleteSyntax contributes nothing to the
\* output of to_diagnostics, neither a primary nor a Hint for any of its
\* notes: the output is the output for the Error and Warning diagnostics
\* alone, every entry is an Error, a Warning or a Hint, and there are as
\* many entries as the Error and Warning diagnostics and their same-file
\* notes account for.
C1_IncompleteSyntaxDropped ==
    DiagDone =>
        /\ ret = to_diagnostics(vfs, args.file, Surviving(args.diags))
        /\ \A i \in 1..Len(ret) : ret[i].severity \in {"ERROR", "WARNING", "HINT"}
        /\ Len(ret) = ExpectedLen(args.file, args.diags)
        /\ Len(Primaries(ret)) = Len(Surviving(args.diags))

C1_Witness ==
    /\ DiagDone
    /\ ret # <<>>
    /\ \E i \in 1..Len(args.diags) :
          /\ args.diags[i].kind.severity = "IncompleteSyntax"
          /\ SameFileNotes(args.file, args.diags[i]) # <<>>

\* C2: in the output of to_diagnostics the primaries come in the order of
\* their input diagnostics, and the Hints of a diagnostic come, in the order
\* of its notes, directly before its primary: between the primary of one
\* surviving diagnostic and the primary of the next lie exactly the Hints of
\* the next, and nothing follows the last primary.
C2_EmissionOrder ==
    DiagDone =>
        LET surv == Surviving(args.diags)
            lm == file_line_map(vfs, args.file)
        IN  /\ Len(Primaries(ret)) = Len(surv)
            /\ ret # <<>> => ~IsHint(ret[Len(ret)])
            /\ \A k \in 1..Len(surv) :
                  LET same == SameFileNotes(args.file, surv[k])
                      block == HintBlock(ret, k)
                      prim == ret[PrimaryIndex(ret, k)]
                  IN  /\ prim.message = surv[k].kind.message
                      /\ prim.range = to_range(lm, surv[k].range)
                      /\ Len(block) = Len(same)
                      /\ \A j \in 1..Len(same) :
                            /\ block[j].message = same[j].msg
                            /\ block[j].range = to_range(lm, same[j].frange.range)

C2_Witness ==
    /\ DiagDone
    /\ Len(args.diags) = 2
    /\ \A i \in 1..2 :
          /\ Survives(args.diags[i])
          /\ SameFileNotes(args.file, args.diags[i]) # <<>>
    /\ args.diags[1].kind # args.diags[2].kind

\* C3: for each Error or Warning diagnostic, to_diagnostics emits as many
\* Hints as the diagnostic has notes whose file is the file being converted;
\* a note in another file produces no Hint, so a diagnostic whose only note
\* is in another file yields the primary alone.
C3_HoistSameFileOnly ==
    DiagDone =>
        LET surv == Surviving(args.diags)
        IN  /\ Len(Primaries(ret)) = Len(surv)
            /\ \A k \in 1..Len(surv) :
                  Len(HintBlock(ret, k)) =
                     Cardinality({i \in 1..Len(surv[k].notes) :
                                    surv[k].notes[i].frange.file_id = args.file})
            /\ Len(SelectSeq(ret, IsHint)) =
                  ExpectedLen(args.file, args.diags) - Len(surv)
            /\ ( /\ Len(args.diags) = 1
                 /\ Survives(args.diags[1])
                 /\ Len(args.diags[1].notes) = 1
                 /\ args.diags[1].notes[1].frange.file_id # args.file )
               => (Len(ret) = 1 /\ ~IsHint(ret[1]))

C3_Witness ==
    /\ DiagDone
    /\ \E k \in 1..Len(args.diags) :
          /\ Survives(args.diags[k])
          /\ \E i, j \in 1..Len(args.diags[k].notes) :
                /\ args.diags[k].notes[i].frange.file_id = args.file
                /\ args.diags[k].notes[j].frange.file_id # args.file

\* C4 (as stated): every Hint has severity Hint, the note's own range and
\* message and one related-information entry, the primary's location with
\* the label "original diagnostic"; and a diagnostic with exactly one
\* same-file note produces exactly two outputs, the Hint and then the primary.
C4_HintShape ==
    DiagDone =>
        LET surv == Surviving(args.diags)
            lm == file_line_map(vfs, args.file)
        IN  /\ Len(Primaries(ret)) = Len(surv)
            /\ \A k \in 1..Len(surv) :
                  LET same == SameFileNotes(args.file, surv[k])
                      block == HintBlock(ret, k)
                  IN  /\ Len(block) = Len(same)
                      /\ \A j \in 1..Len(same) :
                            /\ block[j].severity = "HINT"
                            /\ block[j].range = to_range(lm, same[j].frange.range)
                            /\ block[j].message = same[j].msg
                            /\ block[j].related_information =
                                  << [location |->
                                        Location(uri_for_file(vfs, args.file),
                                                 to_range(lm, surv[k].range)),
                                      message |-> "original diagnostic"] >>

OneSameFileNote ==
    /\ DiagDone
    /\ Len(args.diags) = 1
    /\ Len(SameFileNotes(args.file, args.diags[1])) = 1

HintThenPrimary == Len(ret) = 2 /\ IsHint(ret[1]) /\ ~IsHint(ret[2])

C4_AsStated == C4_HintShape /\ (OneSameFileNote => HintThenPrimary)

\* C4 (amended): every Hint has severity Hint, the note's own range and
\* message and one related-information entry, the primary's location with
\* the label "original diagnostic"; and an Error or Warning diagnostic with
\* exactly one same-file note produces exactly two outputs, the Hint and
\* then the primary (an IncompleteSyntax diagnostic produces none).
C4_HintShapeSurviving ==
    /\ C4_HintShape
    /\ OneSameFileNote =>
          IF Survives(args.diags[1]) THEN HintThenPrimary ELSE ret = <<>>

C4_Witness ==
    /\ OneSameFileNote
    /\ Survives(args.diags[1])
    /\ args.diags[1].range # args.diags[1].notes[1].frange.range

\* C5: the primary of an Error or Warning diagnostic carries one
\* related-information entry per note of the diagnostic, in note order, with
\* the note's message and the note's range projected in the note's own file,
\* whether or not the note was hoisted.
C5_PrimaryRelatedInformation ==
    DiagDone =>
        LET surv == Surviving(args.diags)
            prim == Primaries(ret)
        IN  /\ Len(prim) = Len(surv)
            /\ \A k \in 1..Len(surv) :
                  LET notes == surv[k].notes
                      rel == prim[k].related_information
                  IN  /\ Len(rel) = Len(notes)
                      /\ \A i \in 1..Len(notes) :
                            /\ rel[i].message = notes[i].msg
                            /\ rel[i].location.uri =
                                  vfs[notes[i].frange.file_id].uri
                            /\ rel[i].location.range =
                                  to_range(vfs[notes[i].frange.file_id].text,
                                           notes[i].frange.range)

C5_Witness ==
    /\ DiagDone
    /\ \E k \in 1..Len(args.diags) :
          /\ Survives(args.diags[k])
          /\ Len(args.diags[k].notes) = 2
          /\ args.diags[k].notes[1].frange.file_id = args.file
          /\ args.diags[k].notes[2].frange.file_id # args.file

(***************************************************************************)
(* to_completion_item: the caller passes the line map of the file the      *)
(* completion was computed in, and one completion item.                    *)
(***************************************************************************)
CompletionItems(v, f) ==
    { [kind |-> k, label |-> l,
       source_range |-> RangeAt(file_line_map(v, f), p), replace |-> t] :
        k \in CompletionItemKinds, l \in {"foo", "let"},
        p \in Places, t \in {"foo", "let in"} }

InitCompletion ==
    /\ vfs = InitVfs
    /\ op = "to_completion_item"
    /\ args \in UNION { { [file |-> f, item |-> i] :
                            i \in CompletionItems(InitVfs, f) } :
                        f \in DOMAIN InitVfs }
    /\ ret = Pending
    /\ Idle

ToCompletionItem ==
    /\ op = "to_completion_item"
    /\ pc = "call"
    /\ ret' = to_completion_item(file_line_map(vfs, args.file), args.item)
    /\ pc' = "done"
    /\ UNCHANGED <<vfs, op, args, lock, file, seen, wpc, writes>>

NextCompletion == ToCompletionItem

SpecCompletion == InitCompletion /\ [][NextCompletion]_vars

CompletionDone == op = "to_completion_item" /\ pc = "done"

\* C10: to_completion_item maps the completion kind by the table
\* Keyword->Keyword, Param->Variable, LetBinding->Variable, Field->Field,
\* BuiltinConst->Constant, BuiltinFunction->Function, BuiltinAttrset->Class,
\* for every one of the 7 kinds, and produces no other protocol kind.
C10_CompletionKindTable ==
    CompletionDone =>
        /\ <<args.item.kind, ret.kind>> \in
              { <<"Keyword", "KEYWORD">>, <<"Param", "VARIABLE">>,
                <<"LetBinding", "VARIABLE">>, <<"Field", "FIELD">>,
                <<"BuiltinConst", "CONSTANT">>,
                <<"BuiltinFunction", "FUNCTION">>,
                <<"BuiltinAttrset", "CLASS">> }
        /\ ret.kind \in {"KEYWORD", "VARIABLE", "FIELD", "CONSTANT",
                         "FUNCTION", "CLASS"}

C10_Witness ==
    /\ CompletionDone
    /\ args.item.kind = "LetBinding"
    /\ ret.kind = "VARIABLE"

(***************************************************************************)
(* to_workspace_edit: the caller hands over a map from files of the store  *)
(* to edit lists, grown one file or one edit at a time; the edits of one   *)
(* file do not overlap.                                                    *)
(***************************************************************************)
TextEdits(v, f) ==
    { [delete |-> RangeAt(file_line_map(v, f), p), insert |-> t] :
        p \in Places, t \in {"", "x"} }

TotalEdits(ce) ==
    Cardinality({<<f, i>> \in (DOMAIN ce) \X (1..MaxEdits) : i <= Len(ce[f])})

InitEdit ==
    /\ vfs = InitVfs
    /\ op = "to_workspace_edit"
    /\ args = [content_edits |-> <<>>]
    /\ ret = Pending
    /\ Idle

AddFile ==
    /\ op = "to_workspace_edit"
    /\ pc = "call"
    /\ \E f \in DOMAIN vfs \ DOMAIN args.content_edits :
          args' = [content_edits |-> args.content_edits @@ (f :> <<>>)]
    /\ UNCHANGED <<vfs, op, ret, lock, pc, file, seen, wpc, writes>>

PushEdit ==
    /\ op = "to_workspace_edit"
    /\ pc = "call"
    /\ TotalEdits(args.content_edits) < MaxEdits
    /\ \E f \in DOMAIN args.content_edits :
          \E e \in TextEdits(vfs, f) :
             /\ \A i \in 1..Len(args.content_edits[f]) :
                   args.content_edits[f][i].delete # e.delete
             /\ args' = [args EXCEPT !.content_edits[f] = Append(@, e)]
    /\ UNCHANGED <<vfs, op, ret, lock, pc, file, seen, wpc, writes>>

ToWorkspaceEdit ==
    /\ op = "to_workspace_edit"
    /\ pc = "call"
    /\ ret' = to_workspace_edit(vfs, args)
    /\ pc' = "done"
    /\ UNCHANGED <<vfs, op, args, lock, file, seen, wpc, writes>>

NextEdit == AddFile \/ PushEdit \/ ToWorkspaceEdit

SpecEdit == InitEdit /\ [][NextEdit]_vars

EditDone == op = "to_workspace_edit" /\ pc = "done"

\* the input with the entry of file f taken out
WithoutFile(ws_edit, f) ==
    [content_edits |->
        [g \in DOMAIN ws_edit.content_edits \ {f} |-> ws_edit.content_edits[g]]]

\* C6 (as stated): every key of the output changes map has a non-empty edit
\* list, also when the input maps a file to an empty edit sequence.
C6_AsStated ==
    EditDone => \A u \in DOMAIN ret.changes : ret.changes[u] # <<>>

\* C6 (amended): the output changes map has one entry per file of the input
\* map, the file's URI, with as many edits as the input gives the file; a
\* file the input maps to an empty sequence keeps an entry with an empty
\* list, and only files absent from the input have no entry.
C6_EntryPerInputFile ==
    EditDone =>
        LET ce == args.content_edits
        IN  /\ DOMAIN ret.changes = {uri_for_file(vfs, f) : f \in DOMAIN ce}
            /\ \A f \in DOMAIN ce :
                  /\ Len(ret.changes[uri_for_file(vfs, f)]) = Len(ce[f])
                  /\ ce[f] = <<>> => ret.changes[uri_for_file(vfs, f)] = <<>>

C6_Witness ==
    /\ EditDone
    /\ \E f, g \in DOMAIN args.content_edits :
          /\ args.content_edits[f] = <<>>
          /\ args.content_edits[g] # <<>>
          /\ uri_for_file(vfs, f) \in DOMAIN ret.changes

\* C7: to_workspace_edit converts each file against its own line map and
\* keeps the order of its edits: the list produced for a file A is the same
\* whether or not the input also holds edits for another file B (with
\* another URI), and its i-th entry is the i-th edit of A, projected in A.
C7_NoCrossFileInterference ==
    EditDone =>
        LET ce == args.content_edits
        IN  \A a \in DOMAIN ce :
               LET u == uri_for_file(vfs, a)
               IN  /\ u \in DOMAIN ret.changes
                   /\ \A b \in DOMAIN ce \ {a} :
                         uri_for_file(vfs, b) # u =>
                            to_workspace_edit(vfs, WithoutFile(args, b)).changes[u]
                               = ret.changes[u]
                   /\ Len(ret.changes[u]) = Len(ce[a])
                   /\ \A i \in 1..Len(ce[a]) :
                         /\ ret.changes[u][i].new_text = ce[a][i].insert
                         /\ ret.changes[u][i].range =
                               to_range(vfs[a].text, ce[a][i].delete)

C7_Witness ==
    /\ EditDone
    /\ \E a, b \in DOMAIN args.content_edits :
          /\ a # b
          /\ args.content_edits[a] # <<>>
          /\ args.content_edits[b] # <<>>
          /\ vfs[a].text # vfs[b].text

(***************************************************************************)
(* from_file_pos, run by a request thread while the server's main loop     *)
(* applies document changes to the store under the write lock.             *)
(***************************************************************************)
Params ==
    { [text_document |-> [uri |-> u], position |-> Position(l, c)] :
        u \in Uris, l \in 0..MaxLine, c \in 0..MaxChar }

InitPos ==
    /\ vfs = InitVfs
    /\ op = "from_file_pos"
    /\ args \in Params
    /\ ret = Pending
    /\ lock = Unlocked
    /\ pc = "from_file"
    /\ file = None
    /\ seen = NoReads
    /\ wpc = "idle"
    /\ writes = 0

\* from_file, line 15: snap.vfs.read()
FromFileRead ==
    /\ pc = "from_file"
    /\ ~lock.writer
    /\ lock' = [lock EXCEPT !.readers = @ + 1]
    /\ pc' = "from_file_locked"
    /\ UNCHANGED <<vfs, op, args, ret, file, seen, wpc, writes>>

\* from_file, lines 16-17: the lookup, the guard dropped on return, and the
\* `?` of from_file_pos
FromFileReturn ==
    /\ pc = "from_file_locked"
    /\ lock' = [lock EXCEPT !.readers = @ - 1]
    /\ seen' = [seen EXCEPT !.resolve = vfs]
    /\ LET r == from_file(vfs, args.text_document)
       IN  IF r.ok
           THEN /\ file' = r.val
                /\ pc' = "from_pos"
                /\ ret' = ret
           ELSE /\ ret' = r
                /\ pc' = "done"
                /\ file' = file
    /\ UNCHANGED <<vfs, op, args, wpc, writes>>

\* from_pos, line 20: snap.vfs.read()
FromPosRead ==
    /\ pc = "from_pos"
    /\ ~lock.writer
    /\ lock' = [lock EXCEPT !.readers = @ + 1]
    /\ pc' = "from_pos_locked"
    /\ UNCHANGED <<vfs, op, args, ret, file, seen, wpc, writes>>

\* from_pos, lines 21-23: the lookup, the guard dropped on return, the `?`
\* and the Ok(FilePos) of from_file_pos
FromPosReturn ==
    /\ pc = "from_pos_locked"
    /\ lock' = [lock EXCEPT !.readers = @ - 1]
    /\ seen' = [seen EXCEPT !.lookup = vfs]
    /\ LET r == from_pos(vfs, file, args.position)
       IN  ret' = IF r.ok THEN Ok(FilePos(file, r.val)) ELSE r
    /\ pc' = "done"
    /\ UNCHANGED <<vfs, op, args, file, wpc, writes>>

\* the main loop takes the write lock: no reader, no writer
WriteLock ==
    /\ op = "from_file_pos"
    /\ wpc = "idle"
    /\ writes < MaxWrites
    /\ lock.readers = 0
    /\ ~lock.writer
    /\ lock' = [lock EXCEPT !.writer = TRUE]
    /\ wpc' = "writing"
    /\ UNCHANGED <<vfs, op, args, ret, pc, file, seen, writes>>

\* a document change: a tracked file gets a new text
ChangeDocument ==
    /\ wpc = "writing"
    /\ \E f \in DOMAIN vfs :
          \E t \in Texts \ {vfs[f].text} :
             vfs' = [vfs EXCEPT ![f].text = t]
    /\ writes' = writes + 1
    /\ lock' = [lock EXCEPT !.writer = FALSE]
    /\ wpc' = "idle"
    /\ UNCHANGED <<op, args, ret, pc, file, seen>>

\* a document is opened: an untracked URI gets the next file identifier
OpenDocument ==
    /\ wpc = "writing"
    /\ \E u \in Uris \ {vfs[f].uri : f \in DOMAIN vfs} :
          \E t \in Texts :
             vfs' = vfs @@ (Cardinality(DOMAIN vfs) + 1 :> [uri |-> u, text |-> t])
    /\ writes' = writes + 1
    /\ lock' = [lock EXCEPT !.writer = FALSE]
    /\ wpc' = "idle"
    /\ UNCHANGED <<op, args, ret, pc, file, seen>>

NextPos ==
    \/ FromFileRead
    \/ FromFileReturn
    \/ FromPosRead
    \/ FromPosReturn
    \/ WriteLock
    \/ ChangeDocument
    \/ OpenDocument

SpecPos == InitPos /\ [][NextPos]_vars

PosDone == op = "from_file_pos" /\ pc = "done"

Tracked(v, uri) == \E f \in DOMAIN v : v[f].uri = uri

\* C8: during one from_file_pos call no writer takes effect between the
\* resolution of the document (from_file) and the lookup of its line map
\* (from_pos): the offset returned is computed from the store state in which
\* the document was resolved.
C8_OneSnapshotPerCall ==
    (PosDone /\ ret.ok) =>
        /\ seen.lookup = seen.resolve
        /\ ret.val.pos =
              pos_of(seen.resolve[ret.val.file_id].text,
                     args.position.line, args.position.character)

\* C9: from_file_pos fails if and only if the document is not tracked by the
\* store when from_file resolves it; the error is Unknown Document and no
\* position lookup is made; for a tracked document the result is Ok for
\* every (line, character), however far out of range.
C9_FailsOnlyOnUnknownDocument ==
    PosDone =>
        /\ ret.ok <=> Tracked(seen.resolve, args.text_document.uri)
        /\ ~ret.ok => (ret = UnknownDocument /\ seen.lookup = None)
        /\ ret.ok =>
              /\ seen.resolve[ret.val.file_id].uri = args.text_document.uri
              /\ ret.val.pos \in 0..ByteOffset(seen.lookup[ret.val.file_id].text,
                                              Len(seen.lookup[ret.val.file_id].text))

C9_Witness ==
    /\ PosDone
    /\ ret.ok
    /\ LET text == seen.lookup[ret.val.file_id].text
       IN  /\ args.position.line > LastLine(text)
           /\ args.position.character >
                 Utf16Units(text, LineStart(text, LastLine(text)), Len(text))
           /\ ret.val.pos = ByteOffset(text, Len(text))

=============================================================================
